---- MODULE Spec2Model ----
(***************************************************************************)
(* A model of the recursive-descent JSON parser of src/src/lib.rs.         *)
(*                                                                         *)
(* The parser (struct JsonParser: chars, cursor) is run as a machine with  *)
(* an explicit call stack: one frame per active call of chop,              *)
(* parse_string, parse_next, parse_array, parse_object, parse and          *)
(* parse_file, and one action per basic block of each of them (a loop      *)
(* iteration, the code between two calls).  A callee's value comes back    *)
(* in ret; the return_err! macro is the "IF ret.ok ... ELSE Return(ret)"   *)
(* of the block that follows the call.                                     *)
(*                                                                         *)
(* A character is a one-character string; chars is a sequence of them, so  *)
(* chars[cursor + 1] is the code's chars[cursor].                          *)
(***************************************************************************)
EXTENDS Integers, Sequences, FiniteSets, TLC

VARIABLES
    files,      \* the contents of the files parse_file is called on, in order
    gen,        \* how files was built: the document tree and the variation
    chars,      \* JsonParser.chars
    cursor,     \* JsonParser.cursor
    stack,      \* the call stack, innermost call last
    ret,        \* the value the last completed call returned
    results     \* what each parse_file call returned, with the cursor then

vars == <<files, gen, chars, cursor, stack, ret, results>>

----------------------------------------------------------------------------
(* Characters and their classes.                                           *)

QUOTE == "\""

\* One character, U+00BE (vulgar fraction three quarters): char::is_numeric
\* holds of it and it is no ASCII digit.
ThreeQuarters == "3/4"

AsciiDigit == {"0", "1", "2", "3", "4", "5", "6", "7", "8", "9"}

DigitVal(c) ==
    CASE c = "0" -> 0 [] c = "1" -> 1 [] c = "2" -> 2 [] c = "3" -> 3
      [] c = "4" -> 4 [] c = "5" -> 5 [] c = "6" -> 6 [] c = "7" -> 7
      [] c = "8" -> 8 [] c = "9" -> 9

Letter == {"a", "b", "c", "d", "e", "f", "g", "h", "i", "j", "k", "l", "m",
           "n", "o", "p", "q", "r", "s", "t", "u", "v", "w", "x", "y", "z"}

\* A chop that knows the space only.
is_whitespace_blank(c) == c = " "

\* char::is_whitespace, on the whitespace characters of the model's alphabet.
is_whitespace(c) == c \in {" ", "\t", "\n", "\r"}

is_numeric(c) == c \in AsciiDigit \cup {ThreeQuarters}

is_alphabetic(c) == c \in Letter

----------------------------------------------------------------------------
(* JsonValue, JsonParserError and Result.                                  *)

Null == [t |-> "Null"]
Bool(b) == [t |-> "Bool", b |-> b]
\* A Number is held as the decimal it equals: <<m, s>> is m / 10^s, with s
\* as small as possible.  Within the lengths of the model (fewer than 15
\* significant digits) two texts parse to the same f64 exactly when they
\* denote the same decimal.
Number(n) == [t |-> "Number", n |-> n]
String(s) == [t |-> "String", s |-> s]
Array(a) == [t |-> "Array", a |-> a]
\* An Object's payload is the HashMap: a function from keys to values.
Object(o) == [t |-> "Object", o |-> o]

NoEnd == [k |-> "NoEnd"]
InvalidChar(expected, got) == [k |-> "InvalidChar", expected |-> expected, got |-> got]
InvalidNumber(text) == [k |-> "InvalidNumber", text |-> text]
Eof == [k |-> "Eof"]
Unknown == [k |-> "Unknown"]

\* What a Result holds is a record in every case, so that any two returned
\* values compare: () is Unit, the String of parse_string is StdString(text).
Ok(v) == [ok |-> TRUE, v |-> v]
Err(e) == [ok |-> FALSE, e |-> e]
Unit == [unit |-> TRUE]
StdString(s) == [chars |-> s]

----------------------------------------------------------------------------
(* Library operations the code calls.                                      *)

\* HashMap::new and HashMap::insert: an inserted key replaces the entry a
\* key already has.
HashMapNew == [k \in {} |-> Null]

\* An insert that keeps the entry a key already has.
HashMapInsertIfAbsent(map, key, val) ==
    [k \in DOMAIN map \cup {key} |-> IF k \in DOMAIN map THEN map[k] ELSE val]

HashMapInsert(map, key, val) ==
    [k \in DOMAIN map \cup {key} |-> IF k = key THEN val ELSE map[k]]

RECURSIVE DigitsValue(_)
DigitsValue(ds) ==
    IF ds = <<>> THEN 0
    ELSE 10 * DigitsValue(SubSeq(ds, 1, Len(ds) - 1)) + DigitVal(ds[Len(ds)])

RECURSIVE Normal(_, _)
Normal(m, s) == IF s > 0 /\ m % 10 = 0 THEN Normal(m \div 10, s - 1) ELSE <<m, s>>

\* str::parse::<f64> on a text of numeric characters and dots that starts
\* with a numeric character: ASCII digits with at most one dot parse, to
\* the decimal they write; anything else is an error.
parse_f64(text) ==
    LET dots == {i \in 1..Len(text) : text[i] = "."}
        digs == SelectSeq(text, LAMBDA c : c # ".")
    IN  IF /\ \A i \in 1..Len(text) : text[i] \in AsciiDigit \cup {"."}
           /\ Cardinality(dots) <= 1
           /\ digs # <<>>
        THEN LET frac == IF dots = {} THEN 0
                         ELSE Len(text) - (CHOOSE i \in dots : TRUE)
             IN  Ok(Normal(DigitsValue(digs), frac))
        ELSE Err(Unit)

----------------------------------------------------------------------------
(* The cursor primitives that have no loop.                                *)

read(cs, cur) == IF cur < Len(cs) THEN Ok(cs[cur + 1]) ELSE Err(Eof)

\* A consume that moves the cursor when there is nothing to read.
consume_past_end(cs, cur) == [res |-> read(cs, cur), cursor |-> cur + 1]

\* A consume that leaves the cursor where it is.
consume_in_place(cs, cur) == [res |-> read(cs, cur), cursor |-> cur]

consume(cs, cur) ==
    LET res == read(cs, cur)
    IN  IF res.ok THEN [res |-> res, cursor |-> cur + 1]
        ELSE [res |-> res, cursor |-> cur]

\* A consume_check that names the two characters in the other order.
consume_check_swapped(cs, cur, expected) ==
    LET c == consume(cs, cur)
    IN  IF c.res.ok
        THEN IF c.res.v # expected
             THEN [res |-> Err(InvalidChar(c.res.v, expected)), cursor |-> c.cursor]
             ELSE [res |-> Ok(Unit), cursor |-> c.cursor]
        ELSE c

consume_check(cs, cur, expected) ==
    LET c == consume(cs, cur)
    IN  IF c.res.ok
        THEN IF c.res.v # expected
             THEN [res |-> Err(InvalidChar(expected, c.res.v)), cursor |-> c.cursor]
             ELSE [res |-> Ok(Unit), cursor |-> c.cursor]
        ELSE c

\* A match that takes `true` for false.
word_value_mistaken(text) ==
    CASE text = <<"n", "u", "l", "l">> -> Ok(Null)
      [] text = <<"t", "r", "u", "e">> -> Ok(Bool(FALSE))
      [] text = <<"f", "a", "l", "s", "e">> -> Ok(Bool(FALSE))
      [] OTHER -> Err(Unknown)

\* The match on the accumulated bare word.
word_value(text) ==
    CASE text = <<"n", "u", "l", "l">> -> Ok(Null)
      [] text = <<"t", "r", "u", "e">> -> Ok(Bool(TRUE))
      [] text = <<"f", "a", "l", "s", "e">> -> Ok(Bool(FALSE))
      [] OTHER -> Err(Unknown)

----------------------------------------------------------------------------
(* The call stack.                                                         *)

\* A frame holds the locals of the code (text, found_point, expect_next, end,
\* result, key) and two history fields the properties read: start, the cursor
\* when the call was made, and head, the cursor when the frame's array or
\* object loop last passed its test.
Frame(fn, pc, at) ==
    [fn |-> fn, pc |-> pc, text |-> <<>>, found_point |-> FALSE,
     expect_next |-> FALSE, end |-> FALSE, result |-> <<>>, key |-> <<>>,
     start |-> at, head |-> at]

Top == stack[Len(stack)]
Under == SubSeq(stack, 1, Len(stack) - 1)
At(fn, pc) == stack # <<>> /\ Top.fn = fn /\ Top.pc = pc

\* The running call goes on as frame f.
Goto(f) == stack' = Under \o <<f>>
\* The running call, left as frame f, calls fn with the cursor at `at`.
Call(f, fn, pc, at) == stack' = Under \o <<f, Frame(fn, pc, at)>>
\* The running call returns v.
Return(v) == stack' = Under /\ ret' = v

Input == <<files, gen, chars, results>>

----------------------------------------------------------------------------
(* chop, lines 52-60: one iteration of its loop.                           *)

chop ==
    /\ At("chop", "loop")
    /\ IF cursor < Len(chars) /\ is_whitespace(chars[cursor + 1])
       THEN /\ cursor' = cursor + 1
            /\ UNCHANGED <<stack, ret>>
       ELSE /\ Return(Ok(Unit))
            /\ UNCHANGED cursor
    /\ UNCHANGED Input

----------------------------------------------------------------------------
(* parse_string, lines 87-104.                                             *)

parse_string_open ==
    /\ At("parse_string", "open")
    /\ LET c == consume_check(chars, cursor, QUOTE)
       IN  /\ cursor' = c.cursor
           /\ IF c.res.ok
              THEN Goto([Top EXCEPT !.pc = "loop"]) /\ UNCHANGED ret
              ELSE Return(c.res)
    /\ UNCHANGED Input

\* One iteration of the loop, or its exit with the test of end after it.
parse_string_loop ==
    /\ At("parse_string", "loop")
    /\ IF cursor < Len(chars)
       THEN LET c == consume(chars, cursor)
            IN  /\ cursor' = c.cursor
                /\ IF ~c.res.ok THEN Return(c.res)
                   ELSE IF c.res.v = QUOTE THEN Return(Ok(StdString(Top.text)))
                   ELSE /\ Goto([Top EXCEPT !.text = Append(@, c.res.v)])
                        /\ UNCHANGED ret
       ELSE /\ Return(Err(NoEnd))
            /\ UNCHANGED cursor
    /\ UNCHANGED Input

----------------------------------------------------------------------------
(* parse_next, lines 106-158.                                              *)

parse_next_chop ==
    /\ At("parse_next", "chop")
    /\ Call([Top EXCEPT !.pc = "match"], "chop", "loop", cursor)
    /\ UNCHANGED <<cursor, ret, Input>>

parse_next_match ==
    /\ At("parse_next", "match")
    /\ LET char == read(chars, cursor)
       IN  IF ~char.ok THEN Return(char)
           ELSE IF char.v = "{"
                THEN Call([Top EXCEPT !.pc = "return"], "parse_object", "open", cursor)
                     /\ UNCHANGED ret
           ELSE IF char.v = QUOTE
                THEN Call([Top EXCEPT !.pc = "string"], "parse_string", "open", cursor)
                     /\ UNCHANGED ret
           ELSE IF char.v = "["
                THEN Call([Top EXCEPT !.pc = "return"], "parse_array", "open", cursor)
                     /\ UNCHANGED ret
           ELSE IF is_numeric(char.v)
                THEN Goto([Top EXCEPT !.pc = "number"]) /\ UNCHANGED ret
           ELSE IF is_alphabetic(char.v)
                THEN Goto([Top EXCEPT !.pc = "word"]) /\ UNCHANGED ret
           ELSE Return(Err(Unknown))
    /\ UNCHANGED <<cursor, Input>>

\* Lines 132-136: the accumulated text as a Number.
number_value(text) ==
    LET n == parse_f64(text)
    IN  IF n.ok THEN Ok(Number(n.v)) ELSE Err(InvalidNumber(text))

\* One iteration of the number loop (lines 117-131), or its exit with the
\* conversion after it.
parse_next_number ==
    /\ At("parse_next", "number")
    /\ IF cursor < Len(chars)
       THEN LET char == chars[cursor + 1]
            IN  IF char = "." /\ Top.found_point
                THEN /\ Return(Err(InvalidNumber(Append(Top.text, char))))
                     /\ UNCHANGED cursor
                ELSE IF char # "." /\ ~is_numeric(char)
                THEN /\ Return(number_value(Top.text))
                     /\ UNCHANGED cursor
                ELSE /\ cursor' = cursor + 1
                     /\ Goto([Top EXCEPT !.text = Append(@, char),
                                         !.found_point = @ \/ char = "."])
                     /\ UNCHANGED ret
       ELSE /\ Return(number_value(Top.text))
            /\ UNCHANGED cursor
    /\ UNCHANGED Input

\* A bare-word loop that accumulates and leaves the cursor where it is.
parse_next_word_in_place ==
    /\ At("parse_next", "word")
    /\ IF cursor < Len(chars) /\ is_alphabetic(chars[cursor + 1])
       THEN /\ Goto([Top EXCEPT !.text = Append(@, chars[cursor + 1])])
            /\ UNCHANGED <<cursor, ret>>
       ELSE /\ Return(word_value(Top.text))
            /\ UNCHANGED cursor
    /\ UNCHANGED Input

\* One iteration of the bare-word loop (lines 140-147), or its exit with the
\* match after it.
parse_next_word ==
    /\ At("parse_next", "word")
    /\ IF cursor < Len(chars) /\ is_alphabetic(chars[cursor + 1])
       THEN /\ cursor' = cursor + 1
            /\ Goto([Top EXCEPT !.text = Append(@, chars[cursor + 1])])
            /\ UNCHANGED ret
       ELSE /\ Return(word_value(Top.text))
            /\ UNCHANGED cursor
    /\ UNCHANGED Input

\* Line 111: the string the string reader returned, as a String.
parse_next_string ==
    /\ At("parse_next", "string")
    /\ Return(IF ret.ok THEN Ok(String(ret.v.chars)) ELSE ret)
    /\ UNCHANGED <<cursor, Input>>

\* Lines 110 and 112: what parse_object or parse_array returned.
parse_next_return ==
    /\ At("parse_next", "return")
    /\ Return(ret)
    /\ UNCHANGED <<cursor, Input>>

----------------------------------------------------------------------------
(* parse_array, lines 160-197.                                             *)

parse_array_open ==
    /\ At("parse_array", "open")
    /\ LET c == consume_check(chars, cursor, "[")
       IN  /\ cursor' = c.cursor
           /\ IF c.res.ok
              THEN /\ Call([Top EXCEPT !.pc = "loop"], "chop", "loop", c.cursor)
                   /\ UNCHANGED ret
              ELSE Return(c.res)
    /\ UNCHANGED Input

\* A loop that takes `]` after a `,` for the end of the array.
array_close_lenient(f) ==
    /\ cursor' = cursor + 1
    /\ Call([f EXCEPT !.end = TRUE, !.pc = "end"], "chop", "loop", cursor + 1)
    /\ UNCHANGED ret

\* Lines 169-176: the loop finds `]`.
array_close(f) ==
    IF f.expect_next
    THEN /\ Return(Err(Unknown))
         /\ UNCHANGED cursor
    ELSE /\ cursor' = cursor + 1
         /\ Call([f EXCEPT !.end = TRUE, !.pc = "end"], "chop", "loop", cursor + 1)
         /\ UNCHANGED ret

\* The head of the loop: its test, the look for `]`, the call of parse_next.
parse_array_loop ==
    /\ At("parse_array", "loop")
    /\ IF cursor < Len(chars)
       THEN IF chars[cursor + 1] = "]"
            THEN array_close(Top)
            ELSE /\ Call([Top EXCEPT !.pc = "push", !.head = cursor],
                         "parse_next", "chop", cursor)
                 /\ UNCHANGED <<cursor, ret>>
       ELSE /\ Return(Err(NoEnd))
            /\ UNCHANGED cursor
    /\ UNCHANGED Input

\* Lines 178-180.
parse_array_push ==
    /\ At("parse_array", "push")
    /\ IF ret.ok
       THEN /\ Call([Top EXCEPT !.result = Append(@, ret.v), !.pc = "next"],
                    "chop", "loop", cursor)
            /\ UNCHANGED ret
       ELSE Return(ret)
    /\ UNCHANGED <<cursor, Input>>

\* Lines 181-189, and the test of end after the loop when it breaks.
parse_array_next ==
    /\ At("parse_array", "next")
    /\ LET c == consume(chars, cursor)
       IN  /\ cursor' = c.cursor
           /\ IF ~c.res.ok THEN Return(c.res)
              ELSE IF c.res.v = ","
              THEN /\ Call([Top EXCEPT !.expect_next = TRUE, !.pc = "loop"],
                           "chop", "loop", c.cursor)
                   /\ UNCHANGED ret
              ELSE IF c.res.v = "]"
              THEN /\ Call([Top EXCEPT !.end = TRUE, !.pc = "end"],
                           "chop", "loop", c.cursor)
                   /\ UNCHANGED ret
              ELSE Return(Err(NoEnd))
    /\ UNCHANGED Input

\* Lines 191-193, after the chop.
parse_array_end ==
    /\ At("parse_array", "end")
    /\ Return(Ok(Array(Top.result)))
    /\ UNCHANGED <<cursor, Input>>

----------------------------------------------------------------------------
(* parse_object, lines 199-241.                                            *)

parse_object_open ==
    /\ At("parse_object", "open")
    /\ LET c == consume_check(chars, cursor, "{")
       IN  /\ cursor' = c.cursor
           /\ IF c.res.ok
              THEN /\ Call([Top EXCEPT !.pc = "loop", !.result = HashMapNew],
                           "chop", "loop", c.cursor)
                   /\ UNCHANGED ret
              ELSE Return(c.res)
    /\ UNCHANGED Input

\* Lines 208-215 and 236-237: the loop finds `}`.
object_close(f) ==
    IF f.expect_next
    THEN /\ Return(Err(Unknown))
         /\ UNCHANGED cursor
    ELSE /\ cursor' = cursor + 1
         /\ Return(Ok(Object(f.result)))

\* The head of the loop: its test, the look for `}`, the call of parse_string.
parse_object_loop ==
    /\ At("parse_object", "loop")
    /\ IF cursor < Len(chars)
       THEN IF chars[cursor + 1] = "}"
            THEN object_close(Top)
            ELSE /\ Call([Top EXCEPT !.pc = "key", !.head = cursor],
                         "parse_string", "open", cursor)
                 /\ UNCHANGED <<cursor, ret>>
       ELSE /\ Return(Err(NoEnd))
            /\ UNCHANGED cursor
    /\ UNCHANGED Input

\* Lines 217-219.
parse_object_key ==
    /\ At("parse_object", "key")
    /\ IF ret.ok
       THEN /\ Call([Top EXCEPT !.key = ret.v.chars, !.pc = "colon"], "chop", "loop", cursor)
            /\ UNCHANGED ret
       ELSE Return(ret)
    /\ UNCHANGED <<cursor, Input>>

\* Lines 220-222.
parse_object_colon ==
    /\ At("parse_object", "colon")
    /\ LET c == consume_check(chars, cursor, ":")
       IN  /\ cursor' = c.cursor
           /\ IF c.res.ok
              THEN /\ Call([Top EXCEPT !.pc = "value"], "chop", "loop", c.cursor)
                   /\ UNCHANGED ret
              ELSE Return(c.res)
    /\ UNCHANGED Input

\* Line 223: the call of parse_next.
parse_object_value ==
    /\ At("parse_object", "value")
    /\ Call([Top EXCEPT !.pc = "insert"], "parse_next", "chop", cursor)
    /\ UNCHANGED <<cursor, ret, Input>>

\* Lines 223-225: the insert of what parse_next returned.
parse_object_insert ==
    /\ At("parse_object", "insert")
    /\ IF ret.ok
       THEN /\ Call([Top EXCEPT !.result = HashMapInsert(@, Top.key, ret.v),
                                !.pc = "next"], "chop", "loop", cursor)
            /\ UNCHANGED ret
       ELSE Return(ret)
    /\ UNCHANGED <<cursor, Input>>

\* Lines 226-234, and the test of end after the loop when it breaks.
parse_object_next ==
    /\ At("parse_object", "next")
    /\ LET c == consume(chars, cursor)
       IN  /\ cursor' = c.cursor
           /\ IF ~c.res.ok THEN Return(c.res)
              ELSE IF c.res.v = ","
              THEN /\ Call([Top EXCEPT !.expect_next = TRUE, !.pc = "loop"],
                           "chop", "loop", c.cursor)
                   /\ UNCHANGED ret
              ELSE IF c.res.v = "}"
              THEN Return(Ok(Object(Top.result)))
              ELSE Return(Err(NoEnd))
    /\ UNCHANGED Input

----------------------------------------------------------------------------
(* parse, lines 243-246, and parse_file, lines 249-256.                    *)

parse_chop ==
    /\ At("parse", "chop")
    /\ Call([Top EXCEPT !.pc = "object"], "chop", "loop", cursor)
    /\ UNCHANGED <<cursor, ret, Input>>

parse_object_call ==
    /\ At("parse", "object")
    /\ Call([Top EXCEPT !.pc = "return"], "parse_object", "open", cursor)
    /\ UNCHANGED <<cursor, ret, Input>>

\* A parse that wants the whole input read.
parse_return_whole ==
    /\ At("parse", "return")
    /\ Return(IF ret.ok /\ cursor < Len(chars) THEN Err(Unknown) ELSE ret)
    /\ UNCHANGED <<cursor, Input>>

parse_return ==
    /\ At("parse", "return")
    /\ Return(ret)
    /\ UNCHANGED <<cursor, Input>>

\* JsonParser::new on the next file's content, and the call of parse.
parse_file ==
    /\ stack = <<>>
    /\ Len(results) < Len(files)
    /\ chars' = files[Len(results) + 1]
    /\ cursor' = 0
    /\ stack' = <<Frame("parse_file", "return", 0), Frame("parse", "chop", 0)>>
    /\ UNCHANGED <<files, gen, ret, results>>

parse_file_return ==
    /\ At("parse_file", "return")
    /\ results' = Append(results, [res |-> ret, cursor |-> cursor])
    /\ stack' = Under
    /\ UNCHANGED <<files, gen, chars, cursor, ret>>

----------------------------------------------------------------------------

(* The inputs.  A document is written from a tree: a leaf value, an array  *)
(* of trees, or the members (key, tree) of an object in the order they are *)
(* written, where a key may come twice.  Tokens writes a tree as its       *)
(* tokens; the variations are made on the tokens.                          *)

MaxElems == 2       \* elements of a written array, members of a written object
MaxWs == 2          \* characters of an inserted whitespace run
MaxSuffix == 2      \* characters after the root object's `}`
MaxTail == 3        \* characters of an arbitrary input
MaxNumber == 4      \* characters of an arbitrary number token and what follows

SeqsUpTo(S, n) == UNION {[1..k -> S] : k \in 0..n}

Members(m) == [t |-> "Members", m |-> m]
Member(k, v) == [k |-> k, v |-> v]

DigitChar(d) == <<"0", "1", "2", "3", "4", "5", "6", "7", "8", "9">>[d + 1]

RECURSIVE Digits(_)
Digits(m) == IF m < 10 THEN <<DigitChar(m)>> ELSE Append(Digits(m \div 10), DigitChar(m % 10))

RECURSIVE Padded(_, _)
Padded(ds, n) == IF Len(ds) >= n THEN ds ELSE Padded(<<"0">> \o ds, n)

\* The decimal <<m, s>> written out: 25, 1 is 2.5; 100, 0 is 100.
NumText(n) ==
    LET ds == Padded(Digits(n[1]), n[2] + 1)
        k == Len(ds) - n[2]
    IN  IF n[2] = 0 THEN ds
        ELSE SubSeq(ds, 1, k) \o <<".">> \o SubSeq(ds, k + 1, Len(ds))

RECURSIVE Tokens(_), ElemTokens(_, _), MemberTokens(_, _)
Tokens(t) ==
    CASE t.t = "Null" -> <<<<"n", "u", "l", "l">>>>
      [] t.t = "Bool" -> IF t.b THEN <<<<"t", "r", "u", "e">>>>
                         ELSE <<<<"f", "a", "l", "s", "e">>>>
      [] t.t = "Number" -> <<NumText(t.n)>>
      [] t.t = "String" -> <<<<QUOTE>> \o t.s \o <<QUOTE>>>>
      [] t.t = "Array" -> <<<<"[">>>> \o ElemTokens(t.a, 1) \o <<<<"]">>>>
      [] t.t = "Members" -> <<<<"{">>>> \o MemberTokens(t.m, 1) \o <<<<"}">>>>
ElemTokens(a, i) ==
    IF i > Len(a) THEN <<>>
    ELSE (IF i > 1 THEN <<<<",">>>> ELSE <<>>) \o Tokens(a[i]) \o ElemTokens(a, i + 1)
MemberTokens(m, i) ==
    IF i > Len(m) THEN <<>>
    ELSE (IF i > 1 THEN <<<<",">>>> ELSE <<>>)
         \o <<<<QUOTE>> \o m[i].k \o <<QUOTE>>, <<":">>>> \o Tokens(m[i].v)
         \o MemberTokens(m, i + 1)

RECURSIVE Flatten(_)
Flatten(ts) == IF ts = <<>> THEN <<>> ELSE Head(ts) \o Flatten(Tail(ts))

Doc(t) == Flatten(Tokens(t))

\* The tokens with the run written in the gaps: gap g is before token g + 1,
\* gap Len(ts) is after the last token.
Spaced(ts, gaps, run) ==
    Flatten([i \in 1..Len(ts) |-> (IF i - 1 \in gaps THEN run ELSE <<>>) \o ts[i]])
    \o (IF Len(ts) \in gaps THEN run ELSE <<>>)

\* The Value a tree denotes: an object holds each written key once, with the
\* value of the key's last member.
RECURSIVE Den(_)
Den(t) ==
    CASE t.t = "Array" -> Array([i \in 1..Len(t.a) |-> Den(t.a[i])])
      [] t.t = "Members" ->
            Object([k \in {t.m[i].k : i \in 1..Len(t.m)} |->
                Den(t.m[CHOOSE i \in 1..Len(t.m) :
                        /\ t.m[i].k = k
                        /\ \A j \in 1..Len(t.m) : t.m[j].k = k => j <= i].v)])
      [] OTHER -> t

RECURSIVE DistinctKeys(_)
DistinctKeys(t) ==
    CASE t.t = "Array" -> \A i \in 1..Len(t.a) : DistinctKeys(t.a[i])
      [] t.t = "Members" ->
            /\ \A i, j \in 1..Len(t.m) : t.m[i].k = t.m[j].k => i = j
            /\ \A i \in 1..Len(t.m) : DistinctKeys(t.m[i].v)
      [] OTHER -> TRUE

Leaves == {Null, Bool(TRUE), Bool(FALSE), Number(<<1, 0>>), Number(<<25, 1>>),
           String(<<"a">>)}
SomeLeaves == {Null, Number(<<25, 1>>), String(<<>>)}
FewLeaves == {Bool(TRUE), Number(<<100, 0>>)}
Keys == {<<"a">>, <<"b">>}

Inner ==
    {Array(a) : a \in SeqsUpTo(SomeLeaves, MaxElems)}
    \cup {Members(m) : m \in SeqsUpTo({Member(k, v) : k \in Keys, v \in FewLeaves}, MaxElems)}

Deep ==
    {Array(<<Array(<<Null>>), Members(<<>>)>>),
     Array(<<Members(<<Member(<<"a">>, Array(<<>>))>>)>>),
     Members(<<Member(<<"a">>, Members(<<Member(<<"a">>, Null)>>))>>),
     Members(<<Member(<<"b">>, Array(<<Bool(FALSE)>>)), Member(<<"b">>, Array(<<>>))>>)}

\* The written root objects: a first member of any value, then members of
\* few values.
Trees ==
    {Members(<<>>)}
    \cup {Members(<<Member(<<"a">>, v)>> \o m) :
            v \in Leaves \cup Inner \cup Deep,
            m \in SeqsUpTo({Member(k2, v2) : k2 \in Keys, v2 \in FewLeaves}, MaxElems - 1)}

\* The document of section 8 of the specification.
Sec8Tree ==
    Members(<<Member(<<"a">>, Number(<<1, 0>>)),
              Member(<<"b">>, Array(<<Bool(TRUE), Bool(FALSE), Null>>)),
              Member(<<"c">>, Members(<<Member(<<"d">>, Number(<<25, 1>>))>>))>>)

\* The document whose value the test `all` asserts, lines 262-287.
AllTree ==
    Members(<<Member(<<"h", "e", "l", "l", "o">>, String(<<"w", "o", "r", "l", "d">>)),
              Member(<<"n", "u", "m", "b", "e", "r">>, Number(<<100, 0>>)),
              Member(<<"n", "u", "l", "l">>, Null),
              Member(<<"t", "r", "u", "e">>, Bool(TRUE)),
              Member(<<"f", "a", "l", "s", "e">>, Bool(FALSE)),
              Member(<<"a", "r", "r", "a", "y">>, Array(<<Null>>))>>)

\* The trees the variations are made on.
Shapes ==
    {Members(<<>>), Sec8Tree}
    \cup {Members(<<Member(<<"a">>, v)>>) :
            v \in {Number(<<25, 1>>), String(<<"a">>), Bool(TRUE), Array(<<>>),
                   Members(<<>>), Array(<<Null, Number(<<1, 0>>)>>),
                   Array(<<Array(<<Null>>), Members(<<>>)>>),
                   Members(<<Member(<<"a">>, Array(<<String(<<>>)>>))>>)}}
    \cup {Members(<<Member(<<"a">>, v), Member(<<"b">>, Null)>>) :
            v \in {Number(<<1, 0>>), Array(<<Bool(FALSE)>>), Members(<<Member(<<"b">>, Null)>>)}}

WsChar == {" ", "\t", "\n", "\r"}
WsRuns ==
    {<<c>> : c \in WsChar}
    \cup {SubSeq(<<"\n", "\t", " ", "\r", "\n", " ">>, 1, n) : n \in 1..MaxWs}

SuffixChar == {" ", "}", "x"}
TailChar == {"{", "}", "[", "]", QUOTE, ":", ",", "1", "a", " "}
NumberChar == {"0", "1", ".", ThreeQuarters, "}"}

\* A construct's closing token at place i, and whether a member or element
\* is written before it.
Closes(ts, i) == ts[i] \in {<<"}">>, <<"]">>}
Opens(ts, i) == ts[i] \in {<<"{">>, <<"[">>}

Runs ==
    {[files |-> <<Doc(t)>>, gen |-> [kind |-> "doc", tree |-> t, at |-> 0]] :
        t \in Trees \cup {Sec8Tree, AllTree}}
    \cup
    UNION {{[files |-> <<Doc(t), Spaced(Tokens(t), g, w)>>,
             gen |-> [kind |-> "ws", tree |-> t, at |-> <<g, w>>]] :
                w \in WsRuns,
                g \in {{i} : i \in 0..Len(Tokens(t))} \cup {0..Len(Tokens(t))}} :
           t \in Shapes \cup {AllTree}}
    \cup
    {[files |-> <<lead \o Doc(t), lead \o Doc(t) \o s>>,
      gen |-> [kind |-> "suffix", tree |-> t, at |-> s]] :
        t \in Shapes, lead \in {<<>>, <<" ">>}, s \in (SeqsUpTo(SuffixChar, MaxSuffix) \ {<<>>})}
    \cup
    UNION {{[files |-> <<Flatten(SubSeq(Tokens(t), 1, k))>>,
             gen |-> [kind |-> "truncated", tree |-> t, at |-> k]] :
                k \in 1..(Len(Tokens(t)) - 1)} : t \in Shapes}
    \cup
    UNION {{[files |-> <<Flatten(SubSeq(Tokens(t), 1, i - 1) \o <<<<",">>>>
                                 \o SubSeq(Tokens(t), i, Len(Tokens(t))))>>,
             gen |-> [kind |-> "comma", tree |-> t, at |-> i]] :
                i \in {i \in 2..Len(Tokens(t)) : Closes(Tokens(t), i)}} : t \in Shapes}
    \cup
    {[files |-> <<p \o s>>, gen |-> [kind |-> "raw", tree |-> Null, at |-> Len(p)]] :
        p \in {<<>>, <<"{", QUOTE, QUOTE, ":">>, <<"{", QUOTE, QUOTE, ":", "[">>},
        s \in SeqsUpTo(TailChar, MaxTail)}
    \cup
    {[files |-> <<<<"{", QUOTE, QUOTE, ":">> \o s>>,
      gen |-> [kind |-> "number", tree |-> Null, at |-> 4]] :
        s \in {<<"1">> \o r : r \in SeqsUpTo(NumberChar, MaxNumber)}}

Init ==
    /\ \E r \in Runs : files = r.files /\ gen = r.gen
    /\ chars = <<>>
    /\ cursor = 0
    /\ stack = <<>>
    /\ ret = Ok(Unit)
    /\ results = <<>>

Next ==
    \/ chop
    \/ parse_string_open \/ parse_string_loop
    \/ parse_next_chop \/ parse_next_match \/ parse_next_number
    \/ parse_next_word \/ parse_next_string \/ parse_next_return
    \/ parse_array_open \/ parse_array_loop \/ parse_array_push
    \/ parse_array_next \/ parse_array_end
    \/ parse_object_open \/ parse_object_loop \/ parse_object_key
    \/ parse_object_colon \/ parse_object_value \/ parse_object_insert
    \/ parse_object_next
    \/ parse_chop \/ parse_object_call \/ parse_return
    \/ parse_file \/ parse_file_return

Spec == Init /\ [][Next]_vars

\* The code is sequential: a call that can take a step takes it.
FairSpec == Spec /\ WF_vars(Next)

\* Every parse_file call has returned.
Done == stack = <<>> /\ Len(results) = Len(files)

Res(i) == results[i].res

----------------------------------------------------------------------------
(* C1 *)

\* C1: an input that ends inside an opened object or array, at any token
\* boundary (after the opening delimiter, a key, a `:`, a value or a `,`),
\* fails with NoEnd (UnterminatedObject, UnterminatedArray).
C1Truncated == (gen.kind = "truncated" /\ Done) => Res(1) = Err(NoEnd)

\* What the code does there: NoEnd only when the input ends where a loop
\* makes its test (after the opening delimiter or a `,`), Eof elsewhere.
C1TruncatedAsCoded ==
    (gen.kind = "truncated" /\ Done) =>
        LET last == Tokens(gen.tree)[gen.at]
        IN  Res(1) = IF last \in {<<"{">>, <<"[">>, <<",">>} THEN Err(NoEnd) ELSE Err(Eof)

----------------------------------------------------------------------------
(* C2 *)

\* C2: a well-formed document with distinct keys parses to Ok of the Value
\* its tree denotes; the document of section 8 and the one of the test `all`
\* are among them.
C2Parse ==
    (gen.kind = "doc" /\ DistinctKeys(gen.tree) /\ Done) => Res(1) = Ok(Den(gen.tree))

C2Witness ==
    /\ Done
    /\ gen.kind = "doc"
    /\ gen.tree = Sec8Tree
    /\ Res(1).ok
    /\ DOMAIN Res(1).v.o = {<<"a">>, <<"b">>, <<"c">>}
    /\ Res(1).v.o[<<"a">>] = Number(<<1, 0>>)
    /\ Res(1).v.o[<<"b">>] = Array(<<Bool(TRUE), Bool(FALSE), Null>>)
    /\ Res(1).v.o[<<"c">>] = Object([k \in {<<"d">>} |-> Number(<<25, 1>>)])

\* The document of the test `all` parses to the value the test asserts.
AllWitness ==
    /\ Done
    /\ gen.kind = "doc"
    /\ gen.tree = AllTree
    /\ Res(1).ok
    /\ Res(1).v.o[<<"n", "u", "m", "b", "e", "r">>] = Number(<<100, 0>>)
    /\ Res(1).v.o[<<"a", "r", "r", "a", "y">>] = Array(<<Null>>)

----------------------------------------------------------------------------
(* C3 *)

----------------------------------------------------------------------------
(* C4 *)

\* C4: whitespace runs (space, tab, newline, carriage return) written
\* between the tokens of a well-formed document do not change the Ok value
\* it parses to.
C4Whitespace == (gen.kind = "ws" /\ Done) => (Res(1).ok /\ Res(2) = Res(1))

\* Every gap of the section 8 document filled with newline and tab.
C4Witness ==
    /\ Done
    /\ gen.kind = "ws"
    /\ gen.tree = Sec8Tree
    /\ gen.at = <<0..Len(Tokens(Sec8Tree)), <<"\n", "\t">>>>
    /\ Len(files[2]) > Len(files[1])
    /\ Res(2) = Ok(Den(Sec8Tree))

----------------------------------------------------------------------------
(* C5 *)

\* C5: the cursor stays within 0..length and no step of a reader lowers it,
\* on the paths that end in an error too.  (parse_file makes a new parser.)
C5Cursor ==
    [][/\ stack # <<>> => cursor' >= cursor
       /\ 0 <= cursor' /\ cursor' <= Len(chars')]_vars

\* A parse that read to the end of its input and failed there.
C5Witness ==
    /\ Done
    /\ cursor = Len(chars)
    /\ cursor > 0
    /\ Res(Len(results)) = Err(Eof)

----------------------------------------------------------------------------
(* C6 *)

FirstSignificant(cs) ==
    IF \E i \in 1..Len(cs) : ~is_whitespace(cs[i])
    THEN CHOOSE i \in 1..Len(cs) :
            ~is_whitespace(cs[i]) /\ \A j \in 1..(i - 1) : is_whitespace(cs[j])
    ELSE 0

\* C6: an input whose first character that is no whitespace is some c other
\* than `{` fails with InvalidChar('{', c).
C6Root ==
    Done =>
        \A i \in 1..Len(files) :
            LET j == FirstSignificant(files[i])
            IN  (j > 0 /\ files[i][j] # "{") =>
                    Res(i) = Err(InvalidChar("{", files[i][j]))

\* A bare array after a space.
C6Witness ==
    /\ Done
    /\ files[1] = <<" ", "[", "1">>
    /\ Res(1) = Err(InvalidChar("{", "["))

----------------------------------------------------------------------------
(* C7 *)

NumberRunChar == AsciiDigit \cup {"."}

\* The longest run of ASCII digits and dots that starts after `from`.
NumberRun(cs, from) ==
    LET n == CHOOSE n \in 0..(Len(cs) - from) :
                /\ \A i \in 1..n : cs[from + i] \in NumberRunChar
                /\ n = Len(cs) - from \/ cs[from + n + 1] \notin NumberRunChar
    IN  SubSeq(cs, from + 1, from + n)

Dots(run) == Cardinality({i \in 1..Len(run) : run[i] = "."})

\* The decimal a run with at most one dot writes.
DecimalOf(run) ==
    LET whole == SelectSeq(run, LAMBDA c : c # ".")
        point == IF Dots(run) = 0 THEN Len(run)
                 ELSE (CHOOSE i \in 1..Len(run) : run[i] = ".")
    IN  Normal(DigitsValue(whole), Len(run) - point)

\* The number reader returns: parse_next leaves its number loop.
NumberReturns ==
    /\ At("parse_next", "number")
    /\ Len(stack') < Len(stack)
    /\ chars[cursor - Len(Top.text) + 1] \in AsciiDigit

NumberAsClaimed ==
    LET from == cursor - Len(Top.text)
        run == NumberRun(chars, from)
    IN  IF Dots(run) >= 2
        THEN ~ret'.ok /\ ret'.e.k = "InvalidNumber"
        ELSE /\ ret' = Ok(Number(DecimalOf(run)))
             /\ cursor' = from + Len(run)

\* C7: at an ASCII digit the number reader takes the longest run of digits
\* and dots; a second dot in it is InvalidNumber, otherwise the result is Ok
\* of the number the run writes, with the cursor at the first character
\* after the run.
C7NumberFormat == [][NumberReturns => NumberAsClaimed]_vars

\* What the code does: the same, as long as the run is not followed by a
\* character that is numeric and no ASCII digit.
C7NumberAscii ==
    [][(NumberReturns /\ \A i \in 1..Len(chars) : chars[i] # ThreeQuarters)
        => NumberAsClaimed]_vars

----------------------------------------------------------------------------
(* C8 *)

\* C8: a document in which an object has a key twice parses to Ok, and the
\* object holds the key once, with the value of its last member.
C8LastWins ==
    (gen.kind = "doc" /\ ~DistinctKeys(gen.tree) /\ Done) => Res(1) = Ok(Den(gen.tree))

\* {"a":1,"a":100} parses to the object in which a is 100.
C8Witness ==
    /\ Done
    /\ gen.kind = "doc"
    /\ gen.tree = Members(<<Member(<<"a">>, Number(<<1, 0>>)),
                            Member(<<"a">>, Number(<<100, 0>>))>>)
    /\ Res(1) = Ok(Object([k \in {<<"a">>} |-> Number(<<100, 0>>)]))

----------------------------------------------------------------------------
(* C9 *)

\* C9: what follows the root object's `}` is not read: the input with a
\* suffix parses to the same Ok value, and the cursor is left just after
\* the `}`.
C9Suffix ==
    (gen.kind = "suffix" /\ Done) =>
        /\ Res(1).ok
        /\ Res(2) = Res(1)
        /\ results[2].cursor = Len(files[1])

\* A suffix that is no whitespace, left unread.
C9Witness ==
    /\ Done
    /\ gen.kind = "suffix"
    /\ gen.at = <<"x", "}">>
    /\ Res(2).ok
    /\ results[2].cursor < Len(files[2])

----------------------------------------------------------------------------
(* C10 *)

\* An iteration of the loop of chop, of parse_string, of the number reader
\* or of the bare-word reader that does not leave the loop moves the cursor.
LoopStep ==
    (/\ stack # <<>>
     /\ Len(stack') = Len(stack)
     /\ Top.pc \in {"loop", "number", "word"}
     /\ stack'[Len(stack')].pc = Top.pc) => cursor' > cursor

\* A call of parse_next that returns Ok has moved the cursor.
DispatcherStep ==
    (/\ stack # <<>>
     /\ Top.fn = "parse_next"
     /\ Len(stack') < Len(stack)
     /\ ret'.ok) => cursor' > Top.start

\* An array or object loop that comes round to its test has moved the cursor
\* since the test before.
ContainerLoop ==
    (/\ stack # <<>>
     /\ Top.fn \in {"parse_array", "parse_object"}
     /\ Top.pc = "loop"
     /\ Top.expect_next) => cursor > Top.head

\* C10: every parse ends, with Ok or an error; every iteration of every loop
\* leaves the loop or moves the cursor, and a parse_next that returns Ok has
\* consumed a character.
C10Terminates ==
    /\ <>Done
    /\ []ContainerLoop
    /\ [][LoopStep /\ DispatcherStep]_vars

\* An array loop at its second test, and a finished parse of an input that
\* is no document.
C10Witness ==
    /\ Done
    /\ gen.kind = "raw"
    /\ files[1] = <<"{", QUOTE, QUOTE, ":", "[", "1", ",", "1">>
    /\ ~Res(1).ok

====
